---------------------------- MODULE Spec2Model ----------------------------
(***************************************************************************)
(* A model of UTSK.py (Upcoming TV Shows for Kometa).                      *)
(*                                                                         *)
(* Each component of the script is a small state machine of its own:       *)
(*   SpecFind    find_upcoming_shows: the air-window filter                *)
(* Optional values of Python (None / an absent dict key) are <<>>, a       *)
(* present value x is <<x>>.                                               *)
(***************************************************************************)
EXTENDS Integers, Sequences, FiniteSets, TLC

None == <<>>
Some(x) == <<x>>

\* dict.get(key, default)
Get(opt, default) == IF opt = None THEN default ELSE opt[1]

(***************************************************************************)
(* Bounds of the model.                                                    *)
(***************************************************************************)
\* series the tracker lists
MaxSeries == 2
\* episodes the tracker lists for one series
MaxEpisodes == 2
\* hours that may pass between the two clock samples of find_upcoming_shows
MaxClockSkew == 1
\* output lines the search backend returns during one search_trailer_on_youtube
MaxLines == 2
\* shows accepted by find_upcoming_shows
MaxShows == 2
\* keys of the collection_upcoming_shows section of the configuration
MaxConfigKeys == 3

\* timedelta(days=1) in hours, the unit of time of the model
HoursPerDay == 24

\* the UTC hour of the first clock sample of find_upcoming_shows: 23:00
Now0 == 64 * HoursPerDay + HoursPerDay - 1

VARIABLES
    \* ---- find_upcoming_shows ----
    pc_find,                      \* "idle", "start", "loop", "episodes", "returned"
    future_days_upcoming_shows,   \* the horizon in days
    utc_offset,                   \* hours
    skip_unmonitored,
    cutoff_date,                  \* line 108
    now_local,                    \* line 109
    n_series,                     \* series of all_series already iterated
    series,                       \* the loop variable of line 121
    episodes,                     \* line 133; <<>> while no list is held for the series
    upcoming_shows,               \* line 105
    \* ---- search_trailer_on_youtube ----
    pc_search,                    \* "idle", "run", "lines", "returned"
    show_title,
    year,
    skip_channels,
    term_idx,                     \* position in search_terms of the loop of line 230
    res,                          \* how the latest attempt of line 236 ended
    stdout,                       \* the lines of res.stdout
    line_idx,                     \* position in stdout of the loop of line 243
    best,                         \* line 227
    best_score,                   \* line 228
    stream,                       \* every line consumed so far, in order
    \* ---- main ----
    pc_main,                      \* "idle", "trailers", "show", "search", "download",
                                  \* "attempt1", "attempt2", "check", "overlay",
                                  \* "collection", "done", "aborted"
    shows,                        \* upcoming_shows of line 692, the shows accepted
    config,                       \* line 664
    files,                        \* the trailer files that exist, by path
    show_idx,                     \* position in shows of the loop of line 714
    trailer_info,                 \* line 731
    successful_downloads,         \* line 710
    failed_downloads,             \* line 711
    skipped_existing,             \* line 712
    log,                          \* what the trailer loop did so far, in order
    overlay_file,                 \* the file of line 766; None until written
    collection_file,              \* the file of line 767; None until written
    \* ---- one call of a function of the program ----
    fn,                           \* "idle", or the function called
    args,                         \* the arguments of the call
    returned                      \* None until the call returns, then Some(value)

findVars == <<pc_find, future_days_upcoming_shows, utc_offset, skip_unmonitored,
              cutoff_date, now_local, n_series, series, episodes, upcoming_shows>>

searchVars == <<pc_search, show_title, year, skip_channels, term_idx, res, stdout,
                line_idx, best, best_score, stream>>

mainVars == <<pc_main, shows, config, files, show_idx, trailer_info, successful_downloads,
              failed_downloads, skipped_existing, log, overlay_file, collection_file>>

callVars == <<fn, args, returned>>

vars == <<findVars, searchVars, mainVars, callVars>>


(***************************************************************************)
(* Python strings.  A str is a TLA+ string; TLC evaluates Len, \o, SubSeq, *)
(* Head and Tail on strings, a character is a string of length 1.          *)
(***************************************************************************)
CharAt(s, i) == SubSeq(s, i, i)

\* sub in s
Contains(s, sub) ==
    \E i \in 1..(Len(s) - Len(sub) + 1) : SubSeq(s, i, i + Len(sub) - 1) = sub

Digits == {"0", "1", "2", "3", "4", "5", "6", "7", "8", "9"}
LowerLetters == {"a", "b", "c", "d", "e", "f", "g", "h", "i", "j", "k", "l", "m",
                 "n", "o", "p", "q", "r", "s", "t", "u", "v", "w", "x", "y", "z"}
UpperLetters == {"A", "B", "C", "D", "E", "F", "G", "H", "I", "J", "K", "L", "M",
                 "N", "O", "P", "Q", "R", "S", "T", "U", "V", "W", "X", "Y", "Z"}
Alphabet == "abcdefghijklmnopqrstuvwxyz"
AlphabetUpper == "ABCDEFGHIJKLMNOPQRSTUVWXYZ"

\* the position of letter c in the alphabet string abc
LetterIndex(abc, c) == CHOOSE i \in 1..Len(abc) : CharAt(abc, i) = c

RECURSIVE MapCase(_, _, _, _)
\* s from position i on, each letter of the alphabet abc replaced by the
\* letter at its position in the alphabet xyz
MapCase(s, i, abc, xyz) ==
    IF i > Len(s) THEN ""
    ELSE (IF Contains(abc, CharAt(s, i)) THEN CharAt(xyz, LetterIndex(abc, CharAt(s, i)))
          ELSE CharAt(s, i)) \o MapCase(s, i + 1, abc, xyz)

\* str.lower(), str.upper()
Lower(s) == MapCase(s, 1, AlphabetUpper, Alphabet)
Upper(s) == MapCase(s, 1, Alphabet, AlphabetUpper)

\* str.strip() of a string whose only whitespace is the space
RECURSIVE LStrip(_)
LStrip(s) == IF Len(s) > 0 /\ Head(s) = " " THEN LStrip(Tail(s)) ELSE s
RECURSIVE RStrip(_)
RStrip(s) == IF Len(s) > 0 /\ CharAt(s, Len(s)) = " " THEN RStrip(SubSeq(s, 1, Len(s) - 1)) ELSE s
Strip(s) == LStrip(RStrip(s))

RECURSIVE NatToStr(_)
\* str(n) for a natural number n
NatToStr(n) ==
    IF n < 10 THEN CharAt("0123456789", n + 1)
    ELSE NatToStr(n \div 10) \o CharAt("0123456789", (n % 10) + 1)

(***************************************************************************)
(* The title matcher, lines 182-193.                                       *)
(***************************************************************************)
IsAlnumLower(c) == c \in LowerLetters \cup Digits

RECURSIVE SubNonAlnum(_, _)
\* re.sub(r'[^a-z0-9]+', ' ', s) from position i on: every maximal run of
\* other characters becomes one space
SubNonAlnum(s, i) ==
    IF i > Len(s) THEN ""
    ELSE IF IsAlnumLower(CharAt(s, i)) THEN CharAt(s, i) \o SubNonAlnum(s, i + 1)
    ELSE IF i > 1 /\ ~IsAlnumLower(CharAt(s, i - 1)) THEN SubNonAlnum(s, i + 1)
    ELSE " " \o SubNonAlnum(s, i + 1)

\* line 183
_normalize(s) == Strip(SubNonAlnum(Lower(s), 1))

RECURSIVE SkipSpaces(_, _)
\* the first position from i on that holds no whitespace
SkipSpaces(s, i) == IF i <= Len(s) /\ CharAt(s, i) = " " THEN SkipSpaces(s, i + 1) ELSE i

\* a bracketed year [\(\[]\d{4}[\)\]] starts at position j
YearTokenAt(s, j) ==
    /\ j + 5 <= Len(s)
    /\ CharAt(s, j) \in {"(", "["}
    /\ \A k \in 1..4 : CharAt(s, j + k) \in Digits
    /\ CharAt(s, j + 5) \in {")", "]"}

RECURSIVE SubYearTokens(_, _)
\* re.sub(r'\s*[\(\[]\d{4}[\)\]]\s*', ' ', s) from position i on: every
\* bracketed year, with the whitespace around it, becomes one space
SubYearTokens(s, i) ==
    IF i > Len(s) THEN ""
    ELSE LET j == SkipSpaces(s, i)
         IN  IF YearTokenAt(s, j)
             THEN " " \o SubYearTokens(s, SkipSpaces(s, j + 6))
             ELSE CharAt(s, i) \o SubYearTokens(s, i + 1)

\* line 187 with no year removed
_base_show_title_YearKept(title) == Strip(title)

\* line 187
_base_show_title(title) == Strip(SubYearTokens(title, 1))

\* lines 189-193
_title_matches(video_title, title) ==
    LET base == _normalize(_base_show_title(title))
        vt == _normalize(video_title)
    IN  base /= "" /\ Contains(vt, base)

(***************************************************************************)
(* Calendar dates: datetime.date, isoformat, strptime, strftime.           *)
(***************************************************************************)
IsLeapYear(y) == (y % 4 = 0 /\ y % 100 /= 0) \/ y % 400 = 0

DaysInMonth(y, m) ==
    IF m = 2 THEN (IF IsLeapYear(y) THEN 29 ELSE 28)
    ELSE IF m \in {4, 6, 9, 11} THEN 30 ELSE 31

RECURSIVE CivilFrom(_, _, _)
\* the date n days after the first day of month m of year y
CivilFrom(y, m, n) ==
    IF n < DaysInMonth(y, m) THEN [year |-> y, month |-> m, day |-> n + 1]
    ELSE IF m = 12 THEN CivilFrom(y + 1, 1, n - DaysInMonth(y, m))
    ELSE CivilFrom(y, m + 1, n - DaysInMonth(y, m))

\* n as a string of at least w digits, zero-padded
RECURSIVE ZeroPad(_, _)
ZeroPad(str, w) == IF Len(str) >= w THEN str ELSE ZeroPad("0" \o str, w)

\* date.isoformat()
isoformat(date) ==
    ZeroPad(NatToStr(date.year), 4) \o "-" \o ZeroPad(NatToStr(date.month), 2)
        \o "-" \o ZeroPad(NatToStr(date.day), 2)

RECURSIVE StrToNat(_)
\* int(s) for a string of digits
StrToNat(str) ==
    IF Len(str) = 0 THEN 0
    ELSE 10 * StrToNat(SubSeq(str, 1, Len(str) - 1))
         + ((CHOOSE i \in 1..10 : CharAt("0123456789", i) = CharAt(str, Len(str))) - 1)

\* line 387: datetime.strptime(yyyy_mm_dd, "%Y-%m-%d")
strptime(yyyy_mm_dd) ==
    [year |-> StrToNat(SubSeq(yyyy_mm_dd, 1, 4)),
     month |-> StrToNat(SubSeq(yyyy_mm_dd, 6, 7)),
     day |-> StrToNat(SubSeq(yyyy_mm_dd, 9, 10))]

\* date.weekday(): 0 is Monday (Zeller's congruence)
Weekday(date) ==
    LET m == IF date.month < 3 THEN date.month + 12 ELSE date.month
        y == IF date.month < 3 THEN date.year - 1 ELSE date.year
        k == y % 100
        j == y \div 100
        h == (date.day + ((13 * (m + 1)) \div 5) + k + (k \div 4) + (j \div 4) + 5 * j) % 7
    IN  (h + 5) % 7

MonthNames ==
    <<"January", "February", "March", "April", "May", "June", "July", "August",
      "September", "October", "November", "December">>
DayNames == <<"Monday", "Tuesday", "Wednesday", "Thursday", "Friday", "Saturday", "Sunday">>

\* the text of one strftime directive (C locale, glibc); the directive is the
\* text after the % sign
Directive(date, code) ==
    CASE code = "B" -> MonthNames[date.month]
      [] code = "b" -> SubSeq(MonthNames[date.month], 1, 3)
      [] code = "m" -> ZeroPad(NatToStr(date.month), 2)
      [] code = "-m" -> NatToStr(date.month)
      [] code = "A" -> DayNames[Weekday(date) + 1]
      [] code = "a" -> SubSeq(DayNames[Weekday(date) + 1], 1, 3)
      [] code = "d" -> ZeroPad(NatToStr(date.day), 2)
      [] code = "Y" -> NatToStr(date.year)
      [] code = "y" -> ZeroPad(NatToStr(date.year % 100), 2)
      [] OTHER -> "%" \o code

RECURSIVE strftime(_, _, _)
\* line 422: date.strftime(fmt) from position i of fmt on
strftime(date, fmt, i) ==
    IF i > Len(fmt) THEN ""
    ELSE IF CharAt(fmt, i) = "%" /\ i + 2 <= Len(fmt) /\ SubSeq(fmt, i + 1, i + 2) = "-m"
    THEN Directive(date, "-m") \o strftime(date, fmt, i + 3)
    ELSE IF CharAt(fmt, i) = "%" /\ i + 1 <= Len(fmt)
    THEN Directive(date, CharAt(fmt, i + 1)) \o strftime(date, fmt, i + 2)
    ELSE CharAt(fmt, i) \o strftime(date, fmt, i + 1)

RECURSIVE ReplaceFrom(_, _, _, _)
\* str.replace(old, new) from position i of s on: the occurrences of old,
\* left to right and not overlapping
ReplaceFrom(s, i, old, new) ==
    IF i > Len(s) THEN ""
    ELSE IF i + Len(old) - 1 <= Len(s) /\ SubSeq(s, i, i + Len(old) - 1) = old
    THEN new \o ReplaceFrom(s, i + Len(old), old, new)
    ELSE CharAt(s, i) \o ReplaceFrom(s, i + 1, old, new)

(***************************************************************************)
(* format_date, lines 385-428.                                             *)
(***************************************************************************)
\* line 405: the keys of format_mapping, longest first (the sort is stable)
patterns ==
    <<"mmmm", "dddd", "yyyy", "mmm", "ddd", "yyy", "mm", "dd", "yy", "m", "d", "y">>

\* lines 389-402
format_mapping(date, pattern) ==
    CASE pattern = "mmm" -> "%b"
      [] pattern = "mmmm" -> "%B"
      [] pattern = "mm" -> "%m"
      [] pattern = "m" -> "%-m"
      [] pattern = "dddd" -> "%A"
      [] pattern = "ddd" -> "%a"
      [] pattern = "dd" -> "%d"
      [] pattern = "d" -> NatToStr(date.day)
      [] pattern = "yyyy" -> "%Y"
      [] pattern = "yyy" -> "%Y"
      [] pattern = "yy" -> "%y"
      [] pattern = "y" -> "%y"

\* line 411: the marker of the pattern at position n (enumerate counts from 0)
Marker(n) == "@@" \o NatToStr(n - 1) \o "@@"

RECURSIVE temp_format(_, _)
\* lines 408-414: temp_format after the first n patterns
temp_format(date_format, n) ==
    IF n = 0 THEN date_format
    ELSE ReplaceFrom(temp_format(date_format, n - 1), 1, patterns[n], Marker(n))

\* line 412: the pattern at position n was found, its marker is in replacements
InReplacements(date_format, n) == Contains(temp_format(date_format, n - 1), patterns[n])

RECURSIVE strftime_format(_, _, _)
\* lines 417-419: strftime_format after the markers of the first n patterns
strftime_format(date, date_format, n) ==
    IF n = 0 THEN temp_format(date_format, Len(patterns))
    ELSE LET before == strftime_format(date, date_format, n - 1)
         IN  IF InReplacements(date_format, n)
             THEN ReplaceFrom(before, 1, Marker(n), format_mapping(date, patterns[n]))
             ELSE before

\* lines 385-425
format_date(yyyy_mm_dd, date_format, capitalize) ==
    LET dt_obj == strptime(yyyy_mm_dd)
        result == strftime(dt_obj, strftime_format(dt_obj, date_format, Len(patterns)), 1)
    IN  IF capitalize THEN Upper(result) ELSE result

(***************************************************************************)
(* The tracker's records.                                                  *)
(***************************************************************************)
\* airDateUtc values the tracker may hold: none, or an hour around the window
AirTimes == {Now0, Now0 + 1, Now0 + HoursPerDay}

EpisodeRecords ==
    [seasonNumber : {1}, episodeNumber : {1}, airDateUtc : {None} \cup {Some(t) : t \in AirTimes}]
    \cup [seasonNumber : {1}, episodeNumber : {2}, airDateUtc : {Some(Now0 + 1)}]
    \cup [seasonNumber : {2}, episodeNumber : {1}, airDateUtc : {Some(Now0 + 1)}]

RECURSIVE SeqsUpTo(_, _)
\* the sequences over S of length at most n
SeqsUpTo(S, n) ==
    IF n = 0 THEN {<<>>}
    ELSE LET shorter == SeqsUpTo(S, n - 1)
         IN  shorter \cup {Append(s, x) : s \in {t \in shorter : Len(t) = n - 1}, x \in S}

EpisodeLists == SeqsUpTo(EpisodeRecords, MaxEpisodes)

\* the k-th series of the tracker; its title stands for its identity
SeriesRecords(k) ==
    [title : {"Show" \o NatToStr(k)}, status : {"upcoming", "continuing"},
     monitored : {None, Some(TRUE), Some(FALSE)},
     tvdbId : {Some(100 + k)}, path : {Some("/tv/Show" \o NatToStr(k))},
     imdbId : {None}, year : {Some(2025)}]

(***************************************************************************)
(* convert_utc_to_local, lines 90-101: None for a falsy timestamp, else    *)
(* the instant shifted by utc_offset hours.                                *)
(***************************************************************************)
convert_utc_to_local(utc_date_str, offset) ==
    IF utc_date_str = None THEN None ELSE Some(utc_date_str[1] + offset)

\* datetime.date(): the calendar day of an instant; the instants of the model
\* are hours since 2025-01-01T00:00 UTC
DateOf(instant) == CivilFrom(2025, 1, instant \div HoursPerDay)

(***************************************************************************)
(* find_upcoming_shows, lines 103-180.                                     *)
(***************************************************************************)
RECURSIVE FirstEpisodeFrom(_, _)
\* lines 139-143: the first episode, from position k on, with season 1 and
\* episode 1; None when there is none
FirstEpisodeFrom(eps, k) ==
    IF k > Len(eps) THEN None
    ELSE IF eps[k].seasonNumber = 1 /\ eps[k].episodeNumber = 1 THEN Some(eps[k])
    ELSE FirstEpisodeFrom(eps, k + 1)

first_episode(eps) == FirstEpisodeFrom(eps, 1)

\* line 162 with the lower bound made inclusive
InWindow_Inclusive(air_date, nowl, cutoff) == air_date >= nowl /\ air_date <= cutoff

\* line 162
InWindow(air_date, nowl, cutoff) == air_date > nowl /\ air_date <= cutoff

\* lines 163-173
show_dict(s, air_date) ==
    [title |-> s.title, tvdbId |-> s.tvdbId, path |-> Get(s.path, ""),
     imdbId |-> Get(s.imdbId, ""), year |-> s.year,
     airDate |-> isoformat(DateOf(air_date))]

\* line 122
IsUpcoming(s) == s.status = "upcoming"

\* line 127
SkippedUnmonitored(s, skip) == skip /\ ~Get(s.monitored, TRUE)

\* lines 139-162 for one series whose episodes were fetched: the show to
\* append, or None
ShowFor(s, eps, offset, nowl, cutoff) ==
    LET fe == first_episode(eps)
    IN  IF fe = None THEN None
        ELSE LET air_date == convert_utc_to_local(fe[1].airDateUtc, offset)
             IN  IF air_date = None THEN None
                 ELSE IF InWindow(air_date[1], nowl, cutoff)
                      THEN Some(show_dict(s, air_date[1]))
                      ELSE None

\* find_upcoming_shows is not running
IdleFind ==
    /\ pc_find = "idle"
    /\ future_days_upcoming_shows = 0
    /\ utc_offset = 0
    /\ skip_unmonitored = FALSE
    /\ cutoff_date = 0
    /\ now_local = 0
    /\ n_series = 0
    /\ series = None
    /\ episodes = <<>>
    /\ upcoming_shows = <<>>

\* lines 103-106
InitFindVars ==
    /\ pc_find = "start"
    /\ future_days_upcoming_shows \in {0, 1}
    /\ utc_offset \in {-1, 0, 1}
    /\ skip_unmonitored \in BOOLEAN
    /\ cutoff_date = 0
    /\ now_local = 0
    /\ n_series = 0
    /\ series = None
    /\ episodes = <<>>
    /\ upcoming_shows = <<>>

\* line 109 with the offset taken off the sample
LocalNow_OffsetSubtracted(sample, offset) == sample - offset

\* line 109: the clock sample shifted by the offset
LocalNow(sample, offset) == sample + offset

\* lines 105-109: the two bounds, each from a clock sample of its own
FindStart ==
    /\ pc_find = "start"
    /\ \E skew \in 0..MaxClockSkew :
         /\ cutoff_date' = Now0 + HoursPerDay * future_days_upcoming_shows
         /\ now_local' = LocalNow(Now0 + skew, utc_offset)
    /\ pc_find' = "loop"
    /\ UNCHANGED <<future_days_upcoming_shows, utc_offset, skip_unmonitored,
                   n_series, series, episodes, upcoming_shows>>
    /\ UNCHANGED <<searchVars, mainVars, callVars>>

\* lines 121-130: a series that is not upcoming, or unmonitored and skipped
FindSkipSeries ==
    /\ pc_find = "loop"
    /\ n_series < MaxSeries
    /\ \E s \in SeriesRecords(n_series + 1) :
         /\ ~IsUpcoming(s) \/ SkippedUnmonitored(s, skip_unmonitored)
         /\ series' = Some(s)
    /\ n_series' = n_series + 1
    /\ episodes' = <<>>
    /\ UNCHANGED <<pc_find, future_days_upcoming_shows, utc_offset, skip_unmonitored,
                   cutoff_date, now_local, upcoming_shows>>
    /\ UNCHANGED <<searchVars, mainVars, callVars>>

\* lines 121-133: an upcoming series that is not skipped; its episodes are
\* requested from the tracker
FindFetchEpisodes ==
    /\ pc_find = "loop"
    /\ n_series < MaxSeries
    /\ \E s \in SeriesRecords(n_series + 1) :
         /\ IsUpcoming(s) /\ ~SkippedUnmonitored(s, skip_unmonitored)
         /\ series' = Some(s)
    /\ pc_find' = "episodes"
    /\ episodes' = <<>>
    /\ UNCHANGED <<future_days_upcoming_shows, utc_offset, skip_unmonitored,
                   cutoff_date, now_local, n_series, upcoming_shows>>
    /\ UNCHANGED <<searchVars, mainVars, callVars>>

\* lines 133-178: the tracker answers with the episodes of the series
FindCheckSeries ==
    /\ pc_find = "episodes"
    /\ \E eps \in EpisodeLists :
         /\ episodes' = eps
         /\ LET show == ShowFor(series[1], eps, utc_offset, now_local, cutoff_date)
            IN  upcoming_shows' = IF show = None THEN upcoming_shows
                                  ELSE Append(upcoming_shows, show[1])
    /\ n_series' = n_series + 1
    /\ pc_find' = "loop"
    /\ UNCHANGED <<future_days_upcoming_shows, utc_offset, skip_unmonitored,
                   cutoff_date, now_local, series>>
    /\ UNCHANGED <<searchVars, mainVars, callVars>>

\* line 180: the tracker listed no further series
FindReturn ==
    /\ pc_find = "loop"
    /\ pc_find' = "returned"
    /\ UNCHANGED <<future_days_upcoming_shows, utc_offset, skip_unmonitored,
                   cutoff_date, now_local, n_series, series, episodes, upcoming_shows>>
    /\ UNCHANGED <<searchVars, mainVars, callVars>>

NextFind == FindStart \/ FindSkipSeries \/ FindFetchEpisodes \/ FindCheckSeries \/ FindReturn


(***************************************************************************)
(* search_trailer_on_youtube, lines 195-309.                               *)
(***************************************************************************)
\* lines 209-213
avoid_keywords ==
    <<"reaction", "review", "breakdown", "analysis", "explained", "easter eggs", "theory",
      "predictions", "recap", "commentary", "first time watching", "blind reaction",
      "behind the scenes", "fan made", "concept", "music video", "news", "interview">>

\* lines 216-220
official_channels ==
    <<"netflix", "hbo", "max", "amazon", "prime video", "disney", "marvel", "lucasfilm",
      "apple tv", "paramount", "showtime", "starz", "fx", "amc", "peacock", "universal",
      "sony pictures", "warner bros", "20th century", "lionsgate", "bbc", "itv", "channel 4",
      "hulu">>

\* line 267: the shortest and the longest acceptable duration, in seconds
MinDuration == 10
MaxDuration == 900

\* Python truthiness of an optional number: None and 0 are falsy
TruthyNum(opt) == opt /= None /\ opt[1] /= 0
\* Python truthiness of an optional string: None and '' are falsy
TruthyStr(opt) == opt /= None /\ opt[1] /= ""

\* lines 197-207: the query variants, in order
search_terms(title, yr) ==
    (IF TruthyNum(yr)
     THEN << title \o " " \o NatToStr(yr[1]) \o " trailer",
             title \o " " \o NatToStr(yr[1]) \o " official trailer",
             title \o " " \o NatToStr(yr[1]) \o " teaser" >>
     ELSE <<>>)
    \o << title \o " trailer",
          title \o " official trailer",
          title \o " teaser",
          title \o " official teaser",
          title \o " first look" >>

\* lines 249-252: the fields read from one parsed line
TitleOf(info) == IF TruthyStr(info.title) THEN info.title[1] ELSE ""
VidOf(info) == IF TruthyStr(info.id) THEN info.id[1] ELSE ""
UploaderOf(info) == IF TruthyStr(info.uploader) THEN info.uploader[1] ELSE "Unknown"

\* line 254
MissingTitleOrId(info) == TitleOf(info) = "" \/ VidOf(info) = ""

\* line 258
OnSkippedChannel(info, skip) ==
    /\ Len(skip) > 0
    /\ \E k \in 1..Len(skip) : Contains(Lower(UploaderOf(info)), Lower(skip[k]))

\* lines 262-263 with the denylist never matching
HasAvoidKeyword_Never(info) == FALSE

\* lines 262-263
HasAvoidKeyword(info) ==
    \E k \in 1..Len(avoid_keywords) : Contains(Lower(TitleOf(info)), avoid_keywords[k])

\* line 267
BadDuration(info) ==
    /\ TruthyNum(info.duration)
    /\ ~(MinDuration <= info.duration[1] /\ info.duration[1] <= MaxDuration)

\* lines 244-274: the line is skipped
Rejected(line, title, skip) ==
    \/ ~line.json
    \/ MissingTitleOrId(line)
    \/ OnSkippedChannel(line, skip)
    \/ HasAvoidKeyword(line)
    \/ BadDuration(line)
    \/ ~_title_matches(TitleOf(line), title)

\* lines 277-282
Score(info, yr) ==
    LET tl == Lower(TitleOf(info))
        up == Lower(UploaderOf(info))
    IN    (IF Contains(tl, "official") THEN 3 ELSE 0)
        + (IF Contains(tl, "trailer") THEN 2 ELSE 0)
        + (IF Contains(tl, "teaser") THEN 1 ELSE 0)
        + (IF \E k \in 1..Len(official_channels) : Contains(up, official_channels[k])
           THEN 3 ELSE 0)
        + (IF TruthyNum(yr) /\ Contains(tl, NatToStr(yr[1])) THEN 2 ELSE 0)

\* line 284 with ties going to the later candidate
Replaces_OnTie(score, bscore) == score >= bscore

\* line 284
Replaces(score, bscore) == score > bscore

\* lines 285-286
duration_str(info) ==
    LET d == IF info.duration = None THEN 0 ELSE info.duration[1]
    IN  IF d /= 0 THEN NatToStr(d \div 60) \o ":" \o ZeroPad(NatToStr(d % 60), 2) ELSE "Unknown"

\* lines 288-295
BestOf(info) ==
    [video_id |-> VidOf(info), video_title |-> TitleOf(info),
     duration |-> duration_str(info), uploader |-> UploaderOf(info),
     url |-> "https://www.youtube.com/watch?v=" \o VidOf(info), is_official |-> TRUE]

\* line 241, 300, 304 with a break in place of the continue
AfterFailedAttempt_Break(idx, terms) == Len(terms) + 1

\* lines 241, 300, 304: continue with the next query variant
AfterFailedAttempt(idx, terms) == idx + 1

\* what one output line of the backend may be: no JSON, or a JSON object
Unparsable == [json |-> FALSE, title |-> None, id |-> None, uploader |-> None, duration |-> None]
Info(t, i, u, d) == [json |-> TRUE, title |-> t, id |-> i, uploader |-> u, duration |-> d]

OutputLines ==
    { Unparsable,
      Info(Some("Foo Official Trailer"), Some("a"), Some("Netflix"), Some(900)),
      Info(Some("Foo Trailer"), Some("b"), None, None),
      Info(Some("FOO (2025) trailer"), Some("c"), Some("Fan"), Some(10)),
      Info(Some("Foo Official Trailer REACTION"), Some("d"), Some("Netflix"), Some(120)),
      Info(Some("Foo Official Teaser"), Some("e"), Some("HBO"), Some(901)),
      Info(Some("Foo Official Trailer"), Some("f"), Some("Max"), Some(0)),
      Info(Some("Bar Official Trailer"), Some("g"), Some("Netflix"), Some(60)),
      Info(None, Some("h"), Some("Netflix"), Some(60)),
      Info(Some("Foo Trailer"), Some("i"), Some("SpamTV"), Some(60)),
      Info(Some("Foo Trailer"), Some("j"), Some("Fan"), Some(9)) }

ShowTitles == {"Foo (2025)"}
Years == {None, Some(2025)}
SkipChannelLists == {<<>>, <<"spam">>}

\* lines 244-282 for every output line and every input of the model: whether
\* the line is skipped, and its score
LineVerdict ==
    [line \in OutputLines, title \in ShowTitles, yr \in Years, skip \in SkipChannelLists |->
        [rejected |-> Rejected(line, title, skip), score |-> Score(line, yr)]]

IdleSearch ==
    /\ pc_search = "idle"
    /\ show_title = ""
    /\ year = None
    /\ skip_channels = <<>>
    /\ term_idx = 0
    /\ res = "none"
    /\ stdout = <<>>
    /\ line_idx = 0
    /\ best = None
    /\ best_score = 0
    /\ stream = <<>>

\* lines 195-228
InitSearchVars ==
    /\ pc_search = "run"
    /\ show_title \in ShowTitles
    /\ year \in Years
    /\ skip_channels \in SkipChannelLists
    /\ term_idx = 1
    /\ res = "none"
    /\ stdout = <<>>
    /\ line_idx = 0
    /\ best = None
    /\ best_score = -1
    /\ stream = <<>>

\* the loop of line 230 is about to run the query variant at term_idx
AtAttempt == pc_search = "run" /\ term_idx <= Len(search_terms(show_title, year))

\* lines 241, 300, 304: the query variant is given up, the loop goes on
SkipVariant(outcome) ==
    /\ res' = outcome
    /\ term_idx' = AfterFailedAttempt(term_idx, search_terms(show_title, year))
    /\ UNCHANGED <<pc_search, show_title, year, skip_channels, stdout, line_idx, best,
                   best_score, stream>>
    /\ UNCHANGED <<findVars, mainVars, callVars>>

\* lines 236, 297-300: subprocess.run raises TimeoutExpired after 45 s
SearchTimeout == AtAttempt /\ SkipVariant("timeout")

\* lines 236, 301-304: subprocess.run raises another exception
SearchError == AtAttempt /\ SkipVariant("error")

\* lines 236-241: the backend exits non-zero or prints nothing
SearchNoResults == AtAttempt /\ SkipVariant("noresults")

\* lines 236-243: the backend exits 0 and prints output lines
SearchResults ==
    /\ AtAttempt
    /\ \E out \in SeqsUpTo(OutputLines, MaxLines - Len(stream)) :
         /\ out /= <<>>
         /\ stdout' = out
    /\ res' = "ok"
    /\ line_idx' = 1
    /\ pc_search' = "lines"
    /\ UNCHANGED <<show_title, year, skip_channels, term_idx, best, best_score, stream>>
    /\ UNCHANGED <<findVars, mainVars, callVars>>

\* lines 243-295: one output line; after the last one, the next query variant
SearchLine ==
    /\ pc_search = "lines"
    /\ LET line == stdout[line_idx]
           verdict == LineVerdict[line, show_title, year, skip_channels]
       IN  /\ stream' = Append(stream, line)
           /\ IF ~verdict.rejected /\ Replaces(verdict.score, best_score)
              THEN best' = Some(BestOf(line)) /\ best_score' = verdict.score
              ELSE UNCHANGED <<best, best_score>>
    /\ IF line_idx < Len(stdout)
       THEN line_idx' = line_idx + 1 /\ UNCHANGED <<pc_search, term_idx, stdout>>
       ELSE line_idx' = 0 /\ stdout' = <<>> /\ pc_search' = "run" /\ term_idx' = term_idx + 1
    /\ UNCHANGED <<show_title, year, skip_channels, res>>
    /\ UNCHANGED <<findVars, mainVars, callVars>>

\* line 309
SearchReturn ==
    /\ pc_search = "run"
    /\ term_idx > Len(search_terms(show_title, year))
    /\ pc_search' = "returned"
    /\ UNCHANGED <<show_title, year, skip_channels, term_idx, res, stdout, line_idx, best,
                   best_score, stream>>
    /\ UNCHANGED <<findVars, mainVars, callVars>>

NextSearch ==
    \/ SearchTimeout \/ SearchError \/ SearchNoResults
    \/ SearchResults \/ SearchLine \/ SearchReturn

(***************************************************************************)
(* Python dicts, lists and sets.  A dict is the sequence of its            *)
(* <<key, value>> pairs in insertion order, with distinct keys.            *)
(***************************************************************************)
\* key in d
DictHas(d, key) == \E i \in 1..Len(d) : d[i][1] = key

\* d.get(key, default)
DictGet(d, key, default) ==
    IF DictHas(d, key) THEN d[CHOOSE i \in 1..Len(d) : d[i][1] = key][2] ELSE default

\* d after d.pop(key, default)
DictDel(d, key) == SelectSeq(d, LAMBDA item : item[1] /= key)

\* d after d[key] = value: a key that is present keeps its position
DictSet(d, key, value) ==
    IF DictHas(d, key)
    THEN [i \in 1..Len(d) |-> IF d[i][1] = key THEN <<key, value>> ELSE d[i]]
    ELSE Append(d, <<key, value>>)

\* list(d)
Keys(d) == [i \in 1..Len(d) |-> d[i][1]]

\* the characters of the model in the order of their code points
AsciiOrder == " -/0123456789:" \o AlphabetUpper \o "_" \o Alphabet

RECURSIVE StrLessFrom(_, _, _)
\* a < b for two strs that agree before position i
StrLessFrom(a, b, i) ==
    IF i > Len(b) THEN FALSE
    ELSE IF i > Len(a) THEN TRUE
    ELSE IF CharAt(a, i) = CharAt(b, i) THEN StrLessFrom(a, b, i + 1)
    ELSE LetterIndex(AsciiOrder, CharAt(a, i)) < LetterIndex(AsciiOrder, CharAt(b, i))

StrLess(a, b) == StrLessFrom(a, b, 1)

RECURSIVE SortedStrs(_)
\* sorted(S) for a set of strs
SortedStrs(S) ==
    IF S = {} THEN <<>>
    ELSE LET least == CHOOSE x \in S : \A y \in S : x = y \/ StrLess(x, y)
         IN  <<least>> \o SortedStrs(S \ {least})

RECURSIVE SortedNats(_)
\* sorted(S) for a set of ints
SortedNats(S) ==
    IF S = {} THEN <<>>
    ELSE LET least == CHOOSE x \in S : \A y \in S : x <= y
         IN  <<least>> \o SortedNats(S \ {least})

RECURSIVE InsertNat(_, _)
InsertNat(sorted_list, x) ==
    IF sorted_list = <<>> THEN <<x>>
    ELSE IF x < Head(sorted_list) THEN <<x>> \o sorted_list
    ELSE <<Head(sorted_list)>> \o InsertNat(Tail(sorted_list), x)

RECURSIVE SortedList(_)
\* sorted(l) for a list of ints, repetitions kept
SortedList(l) ==
    IF l = <<>> THEN <<>> ELSE InsertNat(SortedList(SubSeq(l, 1, Len(l) - 1)), l[Len(l)])

RECURSIVE JoinIds(_)
\* ", ".join(str(i) for i in ids)
JoinIds(ids) ==
    IF ids = <<>> THEN ""
    ELSE IF Len(ids) = 1 THEN NatToStr(ids[1])
    ELSE NatToStr(ids[1]) \o ", " \o JoinIds(Tail(ids))

\* the optional values of l that are truthy numbers, unwrapped, in order
RECURSIVE TruthyIds(_)
TruthyIds(l) ==
    IF l = <<>> THEN <<>>
    ELSE IF TruthyNum(Head(l)) THEN <<Head(l)[1]>> \o TruthyIds(Tail(l))
    ELSE TruthyIds(Tail(l))

(***************************************************************************)
(* The inputs of the two writers: the accepted shows and the               *)
(* configuration.                                                          *)
(***************************************************************************)
\* the air dates of the accepted shows
AirDates == {"2025-03-07", "2025-03-08", "2025-04-07"}

\* the k-th accepted show, as built in lines 165-172
ShowRecords(k, dates) ==
    [title : {"Show" \o NatToStr(k)}, tvdbId : {None, Some(100 + k), Some(200 - k)},
     path : {"/tv/Show" \o NatToStr(k)}, imdbId : {""}, year : {Some(2025)},
     airDate : dates]

RECURSIVE ShowLists(_, _)
\* the lists of n accepted shows
ShowLists(n, dates) ==
    IF n = 0 THEN {<<>>}
    ELSE {Append(l, s) : l \in ShowLists(n - 1, dates), s \in ShowRecords(n, dates)}

ShowListsUpTo(n, dates) == UNION {ShowLists(k, dates) : k \in 0..n}

\* a dict with the entry key: opt[1], empty when opt is None
OptEntry(key, opt) == IF opt = None THEN <<>> ELSE << <<key, opt[1]>> >>

\* the backdrop_upcoming_shows sections of the configuration
BackdropSections ==
    {OptEntry("enable", enable) \o extra :
        enable \in {None, Some(TRUE), Some(FALSE)},
        extra \in {<<>>, << <<"name", "mine">>, <<"back_color", "#000000">> >>}}

\* the text_upcoming_shows sections of the configuration
TextSections ==
    {OptEntry("enable", enable) \o OptEntry("date_format", date_format)
        \o << <<"font_size", "70">> >> \o OptEntry("capitalize_dates", capitalize) :
        enable \in {None, Some(TRUE), Some(FALSE)},
        date_format \in {None, Some("d mmm"), Some("mmmm")},
        capitalize \in {None, Some(FALSE)}}

\* the keys a collection_upcoming_shows section may hold, each with its value
CollectionItems ==
    {<<"collection_name", "Premieres">>, <<"sort_title", "+1_Premieres">>,
     <<"summary", "mine">>, <<"sync_mode", "append">>, <<"tvdb_show", "1">>,
     <<"visible_home", "true">>, <<"item_label", "Coming Soon">>}

RECURSIVE DictsOfLen(_, _)
\* the dicts of n items of the set items, in every order
DictsOfLen(items, n) ==
    IF n = 0 THEN {<<>>}
    ELSE {Append(d, item) : d \in DictsOfLen(items, n - 1), item \in items}

\* the collection_upcoming_shows sections of the configuration
CollectionSections ==
    {d \in UNION {DictsOfLen(CollectionItems, n) : n \in 0..MaxConfigKeys} :
        \A i, j \in 1..Len(d) : d[i][1] = d[j][1] => i = j}

\* configurations that vary the two overlay sections
OverlayConfigs ==
    {<< <<"backdrop_upcoming_shows", b>>, <<"text_upcoming_shows", t>> >> :
        b \in BackdropSections, t \in TextSections}

\* configurations that vary the collection section and the horizon
CollectionConfigs ==
    {OptEntry("future_days_upcoming_shows", days) \o << <<"collection_upcoming_shows", c>> >> :
        days \in {None, Some(7)}, c \in CollectionSections}
    \cup {<<>>}

\* format_date on the dates and the formats of the model
FormattedDate ==
    [date_str \in AirDates, date_format \in {"yyyy-mm-dd", "d mmm", "mmmm"},
     capitalize \in BOOLEAN |-> format_date(date_str, date_format, capitalize)]

(***************************************************************************)
(* create_overlay_yaml, lines 430-505.  A written file is the text written *)
(* raw and the mapping handed to yaml.dump with sort_keys=False.           *)
(***************************************************************************)
\* lines 434-437
NoShowsFile == [written |-> "#No matching shows found", dumped |-> <<>>]

\* lines 441-445
all_tvdb_ids(show_list) ==
    {show_list[i].tvdbId[1] : i \in {j \in 1..Len(show_list) : TruthyNum(show_list[j].tvdbId)}}

RECURSIVE date_to_tvdb_ids(_, _)
\* lines 440-448: date_to_tvdb_ids after the first n shows
date_to_tvdb_ids(show_list, n) ==
    IF n = 0 THEN <<>>
    ELSE LET groups == date_to_tvdb_ids(show_list, n - 1)
             s == show_list[n]
         IN  IF s.airDate /= ""
             THEN DictSet(groups, s.airDate, Append(DictGet(groups, s.airDate, <<>>), s.tvdbId))
             ELSE groups

\* lines 453-463: overlays_dict after the backdrop block
BackdropBlock(show_list, sections) ==
    LET section == DictGet(sections, "backdrop", <<>>)
        backdrop_config == DictDel(section, "enable")
        enable_backdrop == DictGet(section, "enable", TRUE)
    IN  IF enable_backdrop /\ all_tvdb_ids(show_list) /= {}
        THEN << <<"backdrop",
                  [overlay |-> DictSet(backdrop_config, "name", "backdrop"),
                   tvdb_show |-> JoinIds(SortedNats(all_tvdb_ids(show_list)))]>> >>
        ELSE <<>>

\* line 485 with the key built from the ISO date
block_key_ByIsoDate(date_str, formatted_date) == "UTSK_" \o date_str

\* line 485
block_key(date_str, formatted_date) == "UTSK_" \o formatted_date

RECURSIVE DateBlocks(_, _, _, _, _, _, _, _)
\* lines 476-489: overlays_dict after the first n dates of the sorted dates
DateBlocks(overlays_dict, groups, dates, n, text_config, date_format, use_text, capitalize) ==
    IF n = 0 THEN overlays_dict
    ELSE LET before == DateBlocks(overlays_dict, groups, dates, n - 1, text_config,
                                  date_format, use_text, capitalize)
             date_str == dates[n]
             formatted_date == FormattedDate[date_str, date_format, capitalize]
             sub_overlay_config ==
                 DictSet(text_config, "name",
                         "text(" \o use_text \o " " \o formatted_date \o ")")
             tvdb_ids_for_date == SortedList(TruthyIds(DictGet(groups, date_str, <<>>)))
         IN  DictSet(before, block_key(date_str, formatted_date),
                     [overlay |-> sub_overlay_config,
                      tvdb_show |-> JoinIds(tvdb_ids_for_date)])

\* lines 466-501: overlays_dict after the text blocks
TextBlocks(overlays_dict, show_list, sections) ==
    LET section == DictGet(sections, "text", <<>>)
        enable_text == DictGet(section, "enable", TRUE)
        date_format == DictGet(section, "date_format", "yyyy-mm-dd")
        use_text == DictGet(section, "use_text", "Coming Soon")
        capitalize_dates == DictGet(section, "capitalize_dates", TRUE)
        text_config ==
            DictDel(DictDel(DictDel(DictDel(section, "enable"), "date_format"),
                            "use_text"), "capitalize_dates")
        groups == date_to_tvdb_ids(show_list, Len(show_list))
        dates == SortedStrs({groups[i][1] : i \in 1..Len(groups)})
    IN  IF ~(enable_text /\ all_tvdb_ids(show_list) /= {}) THEN overlays_dict
        ELSE IF groups /= <<>>
        THEN DateBlocks(overlays_dict, groups, dates, Len(dates), text_config,
                        date_format, use_text, capitalize_dates)
        ELSE DictSet(overlays_dict, "UTSK_upcoming_shows",
                     [overlay |-> DictSet(text_config, "name", "text(" \o use_text \o ")"),
                      tvdb_show |-> JoinIds(SortedNats(all_tvdb_ids(show_list)))])

\* lines 430-505: the file written
create_overlay_yaml(show_list, sections) ==
    IF show_list = <<>> THEN NoShowsFile
    ELSE [written |-> "",
          dumped |-> << <<"overlays",
                          TextBlocks(BackdropBlock(show_list, sections), show_list,
                                     sections)>> >>]

(***************************************************************************)
(* create_collection_yaml, lines 507-625.                                  *)
(***************************************************************************)
\* lines 520-526 with the name of the configuration ignored
collection_name_Fixed(cfg) == "Upcoming Shows"

\* lines 520-526
collection_name(cfg) ==
    DictGet(DictGet(cfg, "collection_upcoming_shows", <<>>), "collection_name",
            "Upcoming Shows")

\* lines 524-526
collection_config(cfg) ==
    DictDel(DictGet(cfg, "collection_upcoming_shows", <<>>), "collection_name")

\* lines 529-530
summary(cfg) ==
    "Shows with their first episode premiering within "
        \o NatToStr(DictGet(cfg, "future_days_upcoming_shows", 30)) \o " days"

\* lines 543-554
EmptyListCollection(name) ==
    << <<"plex_search", << <<"all", << <<"label", name>> >> >> >> >>,
       <<"item_label.remove", name>>,
       <<"smart_label", "random">>,
       <<"build_collection", FALSE>> >>

\* lines 562-572
NoIdsCollection(name) ==
    << <<"plex_search", << <<"all", << <<"label", name>> >> >> >> >>,
       <<"non_item_remove_label", name>>,
       <<"build_collection", FALSE>> >>

RECURSIVE SetItems(_, _, _)
\* lines 586-590: d after the first n items of the dict items were assigned
SetItems(d, items, n) ==
    IF n = 0 THEN d
    ELSE DictSet(SetItems(d, items, n - 1), items[n][1], items[n][2])

\* lines 581-596
collection_data(show_list, cfg) ==
    LET config_items == collection_config(cfg)
        with_config == SetItems(<< <<"summary", summary(cfg)>> >>, config_items,
                                Len(config_items))
        tvdb_ids == TruthyIds([i \in 1..Len(show_list) |-> show_list[i].tvdbId])
    IN  DictSet(DictSet(with_config, "sync_mode", "sync"),
                "tvdb_show", JoinIds(SortedList(tvdb_ids)))

\* line 611 without sync_mode and tvdb_show in the list
TakenLater_SummaryAndSortTitleOnly(key) == key \in {"summary", "sort_title"}

\* line 611: the keys the loop of line 610 leaves to the lines around it
TakenLater(key) == key \in {"summary", "sort_title", "sync_mode", "tvdb_show"}

RECURSIVE OtherKeys(_, _, _)
\* lines 610-612: ordered_collection after the first n items of data
OtherKeys(ordered, data, n) ==
    IF n = 0 THEN ordered
    ELSE LET before == OtherKeys(ordered, data, n - 1)
         IN  IF ~TakenLater(data[n][1]) THEN DictSet(before, data[n][1], data[n][2])
             ELSE before

\* lines 599-616
ordered_collection(data) ==
    LET first == << <<"summary", DictGet(data, "summary", "")>> >>
        second == IF DictHas(data, "sort_title")
                  THEN DictSet(first, "sort_title", DictGet(data, "sort_title", ""))
                  ELSE first
        third == OtherKeys(second, data, Len(data))
    IN  DictSet(DictSet(third, "sync_mode", DictGet(data, "sync_mode", "")),
                "tvdb_show", DictGet(data, "tvdb_show", ""))

\* lines 507-625: the file written
create_collection_yaml(show_list, cfg) ==
    LET name == collection_name(cfg)
        tvdb_ids == TruthyIds([i \in 1..Len(show_list) |-> show_list[i].tvdbId])
        block == IF show_list = <<>> THEN EmptyListCollection(name)
                 ELSE IF tvdb_ids = <<>> THEN NoIdsCollection(name)
                 ELSE ordered_collection(collection_data(show_list, cfg))
    IN  [written |-> "", dumped |-> << <<"collections", << <<name, block>> >> >> >>]

(***************************************************************************)
(* download_trailer, lines 311-383, and main, lines 656-791.               *)
(***************************************************************************)
\* str.isalnum() of one character
IsAlnum(c) == c \in LowerLetters \cup UpperLetters \cup Digits

RECURSIVE KeepFileChars(_, _)
\* lines 325 and 721: the characters of title, from position i on, that are
\* alphanumeric or one of space, hyphen, underscore
KeepFileChars(title, i) ==
    IF i > Len(title) THEN ""
    ELSE IF IsAlnum(CharAt(title, i)) \/ CharAt(title, i) \in {" ", "-", "_"}
    THEN CharAt(title, i) \o KeepFileChars(title, i + 1)
    ELSE KeepFileChars(title, i + 1)

\* lines 325 and 721
clean_title(title) == RStrip(KeepFileChars(title, 1))

\* lines 322-326 and 720-722
final_mp4_path(show) ==
    show.path \o "/Season 00/" \o clean_title(show.title) \o ".S00E00.Trailer.mp4"

\* lines 718-724 with the file never seen
AlreadyExists_Never(show, existing) == FALSE

\* lines 718-724: the show has a path and its trailer file is there
AlreadyExists(show, existing) == show.path /= "" /\ final_mp4_path(show) \in existing

\* line 675: str(config.get("download_trailers", "true")).lower() == "true"
download_trailers(cfg) == Lower(DictGet(cfg, "download_trailers", "true")) = "true"

\* lines 365 and 371: the two format strings
ExactFormat == "bv*[height=1080]+ba/b[height=1080]"
FallbackFormat == "bv*[height<=1080]+ba/b[height<=1080]"

\* what search_trailer_on_youtube hands back to main: a trailer or None; it
\* raises nothing, each of its attempts runs under the handlers of lines 297-304
TrailerInfos == {None, Some([video_id |-> "a", url |-> "https://www.youtube.com/watch?v=a"])}

\* the shows of a run of the trailer loop; a show may have no path
TrailerShowRecords(k) ==
    [title : {"Show" \o NatToStr(k)}, tvdbId : {Some(100 + k)},
     path : {"", "/tv/Show" \o NatToStr(k)}, imdbId : {""}, year : {Some(2025)},
     airDate : {"2025-03-07"}]

RECURSIVE TrailerShowLists(_)
TrailerShowLists(n) ==
    IF n = 0 THEN {<<>>}
    ELSE {Append(l, s) : l \in TrailerShowLists(n - 1), s \in TrailerShowRecords(n)}

\* the trailer files a run may find in place
TrailerFiles == {"/tv/Show" \o NatToStr(k) \o "/Season 00/Show" \o NatToStr(k)
                    \o ".S00E00.Trailer.mp4" : k \in 1..MaxShows}

\* the configurations of a run of the trailer loop; a YAML boolean is held
\* as the text str() gives it
TrailerConfigs ==
    {<<>>, << <<"download_trailers", "True">> >>, << <<"download_trailers", "False">> >>}

Event(name, i, detail) == [event |-> name, show |-> i, detail |-> detail]

\* main is not running
IdleMain ==
    /\ pc_main = "idle"
    /\ shows = <<>>
    /\ config = <<>>
    /\ files = {}
    /\ show_idx = 0
    /\ trailer_info = None
    /\ successful_downloads = 0
    /\ failed_downloads = 0
    /\ skipped_existing = 0
    /\ log = <<>>
    /\ overlay_file = None
    /\ collection_file = None

\* line 707: main has the accepted shows and reaches the trailers
InitMainVars ==
    /\ pc_main = "trailers"
    /\ shows \in UNION {TrailerShowLists(n) : n \in 0..MaxShows}
    /\ config \in TrailerConfigs
    /\ files \in SUBSET TrailerFiles
    /\ show_idx = 0
    /\ trailer_info = None
    /\ successful_downloads = 0
    /\ failed_downloads = 0
    /\ skipped_existing = 0
    /\ log = <<>>
    /\ overlay_file = None
    /\ collection_file = None

\* lines 762-767: main reaches the creation of the files
InitDocsVars ==
    /\ pc_main = "overlay"
    /\ \/ shows \in ShowListsUpTo(MaxShows, AirDates) /\ config \in OverlayConfigs
       \/ shows \in ShowListsUpTo(MaxShows, {"2025-03-07"}) /\ config \in CollectionConfigs
    /\ files = {}
    /\ show_idx = 0
    /\ trailer_info = None
    /\ successful_downloads = 0
    /\ failed_downloads = 0
    /\ skipped_existing = 0
    /\ log = <<>>
    /\ overlay_file = None
    /\ collection_file = None

\* lines 747-750 and 753: the show at hand is counted, the loop goes on
Counted(ok, events) ==
    /\ successful_downloads' = IF ok THEN successful_downloads + 1 ELSE successful_downloads
    /\ failed_downloads' = IF ok THEN failed_downloads ELSE failed_downloads + 1
    /\ log' = log \o events
              \o <<Event(IF ok THEN "successful" ELSE "failed", show_idx, "")>>
    /\ pc_main' = "show"

\* lines 708-712 and 759-762: the loop is entered, or left out
MainTrailers ==
    /\ pc_main = "trailers"
    /\ pc_main' = IF download_trailers(config) /\ shows /= <<>> THEN "show" ELSE "overlay"
    /\ UNCHANGED <<shows, config, files, show_idx, trailer_info, successful_downloads,
                   failed_downloads, skipped_existing, log, overlay_file, collection_file>>
    /\ UNCHANGED <<findVars, searchVars, callVars>>

\* lines 714-728: the next show is reached; a trailer file in place ends its turn
MainReachShow ==
    /\ pc_main = "show"
    /\ show_idx < Len(shows)
    /\ show_idx' = show_idx + 1
    /\ LET show == shows[show_idx + 1]
           reach == Event("reach", show_idx + 1,
                          IF show.path /= "" /\ final_mp4_path(show) \in files
                          THEN "exists" ELSE "missing")
       IN  IF AlreadyExists(show, files)
           THEN /\ skipped_existing' = skipped_existing + 1
                /\ successful_downloads' = successful_downloads + 1
                /\ log' = log \o <<reach, Event("skipped", show_idx + 1, ""),
                                   Event("successful", show_idx + 1, "")>>
                /\ UNCHANGED pc_main
           ELSE /\ pc_main' = "search"
                /\ log' = Append(log, reach)
                /\ UNCHANGED <<skipped_existing, successful_downloads>>
    /\ UNCHANGED <<shows, config, files, trailer_info, failed_downloads,
                   overlay_file, collection_file>>
    /\ UNCHANGED <<findVars, searchVars, callVars>>

\* lines 731-741 and 751-753: the search returns; no trailer counts as failed
MainSearch ==
    /\ pc_main = "search"
    /\ \E result \in TrailerInfos :
         /\ trailer_info' = result
         /\ IF result = None
            THEN Counted(FALSE, <<Event("search", show_idx, "none")>>)
            ELSE /\ pc_main' = "download"
                 /\ log' = Append(log, Event("search", show_idx, "found"))
                 /\ UNCHANGED <<successful_downloads, failed_downloads>>
    /\ UNCHANGED <<shows, config, files, show_idx, skipped_existing,
                   overlay_file, collection_file>>
    /\ UNCHANGED <<findVars, searchVars, callVars>>

\* lines 317-331: no path returns False; the Season 00 directory is made
\* outside any try, so an OSError of mkdir leaves download_trailer and ends
\* main in the handler of lines 789-791; a trailer file in place returns True
DownloadStart ==
    /\ pc_main = "download"
    /\ LET show == shows[show_idx]
       IN  IF show.path = ""
           THEN Counted(FALSE, <<Event("download", show_idx, "no path")>>)
           ELSE \E mkdir_raises \in BOOLEAN :
                  IF mkdir_raises
                  THEN /\ pc_main' = "aborted"
                       /\ log' = Append(log, Event("mkdir", show_idx, "raised"))
                       /\ UNCHANGED <<successful_downloads, failed_downloads>>
                  ELSE IF final_mp4_path(show) \in files
                  THEN Counted(TRUE, <<Event("mkdir", show_idx, "made")>>)
                  ELSE /\ pc_main' = "attempt1"
                       /\ log' = Append(log, Event("mkdir", show_idx, "made"))
                       /\ UNCHANGED <<successful_downloads, failed_downloads>>
    /\ UNCHANGED <<shows, config, files, show_idx, trailer_info, skipped_existing,
                   overlay_file, collection_file>>
    /\ UNCHANGED <<findVars, searchVars, callVars>>

\* the events of one attempt: the format tried, and that it raised
Attempt(format_string, raised) ==
    <<Event("attempt", show_idx, format_string)>>
    \o (IF raised THEN <<Event("raise", show_idx, format_string)>> ELSE <<>>)

AfterExact_FallbackAlways(raised) == "attempt2"

\* lines 364-371: the handler of the first attempt runs the second one
AfterExact(raised) == IF raised THEN "attempt2" ELSE "check"

\* lines 363-366: the attempt at exactly 1080p; it may raise, and it may
\* leave the trailer file
DownloadExact ==
    /\ pc_main = "attempt1"
    /\ \E raised \in BOOLEAN, created \in BOOLEAN :
         /\ files' = IF created THEN files \cup {final_mp4_path(shows[show_idx])} ELSE files
         /\ log' = log \o Attempt(ExactFormat, raised)
         /\ pc_main' = AfterExact(raised)
    /\ UNCHANGED <<shows, config, show_idx, trailer_info, successful_downloads,
                   failed_downloads, skipped_existing, overlay_file, collection_file>>
    /\ UNCHANGED <<findVars, searchVars, callVars>>

\* lines 367-371 and 381-383: the attempt at up to 1080p; if it raises,
\* download_trailer returns False
DownloadFallback ==
    /\ pc_main = "attempt2"
    /\ \E raised \in BOOLEAN, created \in BOOLEAN :
         /\ files' = IF created THEN files \cup {final_mp4_path(shows[show_idx])} ELSE files
         /\ IF raised
            THEN Counted(FALSE, Attempt(FallbackFormat, TRUE)
                                \o <<Event("download", show_idx, "raised")>>)
            ELSE /\ pc_main' = "check"
                 /\ log' = log \o Attempt(FallbackFormat, FALSE)
                 /\ UNCHANGED <<successful_downloads, failed_downloads>>
    /\ UNCHANGED <<shows, config, show_idx, trailer_info, skipped_existing,
                   overlay_file, collection_file>>
    /\ UNCHANGED <<findVars, searchVars, callVars>>

\* lines 373-379: True if the trailer file is there, else False
DownloadCheck ==
    /\ pc_main = "check"
    /\ IF final_mp4_path(shows[show_idx]) \in files
       THEN Counted(TRUE, <<Event("download", show_idx, "file found")>>)
       ELSE Counted(FALSE, <<Event("download", show_idx, "file not found")>>)
    /\ UNCHANGED <<shows, config, files, show_idx, trailer_info, skipped_existing,
                   overlay_file, collection_file>>
    /\ UNCHANGED <<findVars, searchVars, callVars>>

\* lines 755-767: the loop is over
MainLoopEnd ==
    /\ pc_main = "show"
    /\ show_idx = Len(shows)
    /\ pc_main' = "overlay"
    /\ UNCHANGED <<shows, config, files, show_idx, trailer_info, successful_downloads,
                   failed_downloads, skipped_existing, log, overlay_file, collection_file>>
    /\ UNCHANGED <<findVars, searchVars, callVars>>

\* lines 769-771
WriteOverlay ==
    /\ pc_main = "overlay"
    /\ overlay_file' =
         Some(create_overlay_yaml(shows,
                << <<"backdrop", DictGet(config, "backdrop_upcoming_shows", <<>>)>>,
                   <<"text", DictGet(config, "text_upcoming_shows", <<>>)>> >>))
    /\ pc_main' = "collection"
    /\ UNCHANGED <<shows, config, files, show_idx, trailer_info, successful_downloads,
                   failed_downloads, skipped_existing, log, collection_file>>
    /\ UNCHANGED <<findVars, searchVars, callVars>>

\* line 773
WriteCollection ==
    /\ pc_main = "collection"
    /\ collection_file' = Some(create_collection_yaml(shows, config))
    /\ pc_main' = "done"
    /\ UNCHANGED <<shows, config, files, show_idx, trailer_info, successful_downloads,
                   failed_downloads, skipped_existing, log, overlay_file>>
    /\ UNCHANGED <<findVars, searchVars, callVars>>

NextDocs == WriteOverlay \/ WriteCollection

NextMain ==
    \/ MainTrailers \/ MainReachShow \/ MainSearch \/ DownloadStart \/ DownloadExact
    \/ DownloadFallback \/ DownloadCheck \/ MainLoopEnd \/ WriteOverlay \/ WriteCollection

(***************************************************************************)
(* Single calls of the functions without state.                            *)
(***************************************************************************)
\* no function is called on its own
IdleCall == fn = "idle" /\ args = <<>> /\ returned = None

\* titles of shows: with a trailing year, without, with a year elsewhere,
\* with two years, of a year or of punctuation only
MatchShowTitles ==
    {"Foo (2025)", "Foo", "Foo [2025]", "Foo (2025]", "Foo (2010) Bar", "(1984) Foo",
     "Foo (2019) (2025)", "Foo (202)", "(2025)", "!!!", ""}

\* titles of videos
MatchVideoTitles ==
    {"Official FOO Trailer", "Bar Trailer", "Foo Bar - Trailer", "foo 2010 bar",
     "FOO (2019) | Trailer", "Foo: 202", "Fo o", "2025", " ", ""}

\* dates of format_date: a one-digit day, day 11 in a two-digit month, a
\* leap day
FormatDates == {"2025-03-07", "2025-11-11", "2024-02-29"}

\* date_format values: the two of the documentation, runs of one letter of
\* every length up to five, letters inside words, and text that reads as a
\* marker
FormatPatterns ==
    {"mmmm d, yyyy", "yyyy-mm-dd", "d mmm", "dddd dd/mm/yy", "ddd m.d.y", "yyy",
     "mmmmm", "ddddd", "yyyyy", "Monday", "day d", "@@d@@ y", "@@0@@ mmmm", "@@ d @@", ""}

\* a function is called: _title_matches (line 189) or format_date (line 385)
InitCallVars ==
    /\ \/ /\ fn = "_title_matches"
          /\ args \in [video_title : MatchVideoTitles, show_title : MatchShowTitles]
       \/ /\ fn = "format_date"
          /\ args \in [yyyy_mm_dd : FormatDates, date_format : FormatPatterns,
                       capitalize : BOOLEAN]
    /\ returned = None

\* lines 189-193: the call returns
CallTitleMatches ==
    /\ fn = "_title_matches"
    /\ returned = None
    /\ returned' = Some(_title_matches(args.video_title, args.show_title))
    /\ UNCHANGED <<fn, args>>
    /\ UNCHANGED <<findVars, searchVars, mainVars>>

\* lines 385-425: the call returns
CallFormatDate ==
    /\ fn = "format_date"
    /\ returned = None
    /\ returned' = Some(format_date(args.yyyy_mm_dd, args.date_format, args.capitalize))
    /\ UNCHANGED <<fn, args>>
    /\ UNCHANGED <<findVars, searchVars, mainVars>>

NextCall == CallTitleMatches \/ CallFormatDate

(***************************************************************************)
(* The specifications: one component runs, the others are idle.            *)
(***************************************************************************)
InitFind == InitFindVars /\ IdleSearch /\ IdleMain /\ IdleCall
SpecFind == InitFind /\ [][NextFind]_vars

InitSearch == InitSearchVars /\ IdleFind /\ IdleMain /\ IdleCall
SpecSearch == InitSearch /\ [][NextSearch]_vars

InitDocs == InitDocsVars /\ IdleFind /\ IdleSearch /\ IdleCall
SpecDocs == InitDocs /\ [][NextDocs]_vars

InitMain == InitMainVars /\ IdleFind /\ IdleSearch /\ IdleCall
SpecMain == InitMain /\ [][NextMain]_vars

InitCall == InitCallVars /\ IdleFind /\ IdleSearch /\ IdleMain
SpecCall == InitCall /\ [][NextCall]_vars

(***************************************************************************)
(* Claims about find_upcoming_shows.                                       *)
(***************************************************************************)
\* a Show of upcoming_shows stands for series s
HasShow(s) == \E k \in 1..Len(upcoming_shows) : upcoming_shows[k].title = s.title

\* the series is not filtered out by its status or by skip_unmonitored
Eligible(s) == s.status = "upcoming" /\ (~skip_unmonitored \/ Get(s.monitored, TRUE))

IsS1E1(ep) == ep.seasonNumber = 1 /\ ep.episodeNumber = 1

\* the episode's timestamp is known and, shifted, lies in (now_local, cutoff_date]
AirsInWindow(ep) ==
    /\ ep.airDateUtc /= None
    /\ now_local < ep.airDateUtc[1] + utc_offset
    /\ ep.airDateUtc[1] + utc_offset <= cutoff_date

\* some season-1/episode-1 episode of the list airs in the window
SomeS1E1InWindow(eps) == \E k \in 1..Len(eps) : IsS1E1(eps[k]) /\ AirsInWindow(eps[k])

\* the first season-1/episode-1 episode of the list airs in the window
FirstS1E1InWindow(eps) ==
    \E k \in 1..Len(eps) :
        /\ IsS1E1(eps[k]) /\ AirsInWindow(eps[k])
        /\ \A j \in 1..(k - 1) : ~IsS1E1(eps[j])

\* the loop has handled the series held in the loop variable
SeriesHandled == pc_find \in {"loop", "returned"} /\ series /= None

\* C1 as stated: a Show is returned for a series iff it is upcoming, not
\* skipped as unmonitored, and its episode list contains a season-1/episode-1
\* episode whose known air instant, shifted by utc_offset, is in (now, cutoff].
C1_ShowIffAnyS1E1InWindow ==
    SeriesHandled =>
        (HasShow(series[1]) <=> (Eligible(series[1]) /\ SomeS1E1InWindow(episodes)))

\* C1 amended: a Show is returned for a series iff it is upcoming, not skipped
\* as unmonitored, and the FIRST season-1/episode-1 episode of its episode
\* list has a known air instant that, shifted by utc_offset, is in (now, cutoff].
C1_ShowIffFirstS1E1InWindow ==
    SeriesHandled =>
        (HasShow(series[1]) <=> (Eligible(series[1]) /\ FirstS1E1InWindow(episodes)))

\* a series with two season-1/episode-1 records, the first without a
\* timestamp and the second in the window, was handled and gave no Show,
\* after an earlier series gave one
C1_Witness ==
    /\ SeriesHandled /\ Eligible(series[1])
    /\ Len(episodes) = 2
    /\ IsS1E1(episodes[1]) /\ episodes[1].airDateUtc = None
    /\ IsS1E1(episodes[2]) /\ AirsInWindow(episodes[2])
    /\ ~HasShow(series[1])
    /\ Len(upcoming_shows) = 1

\* the width the window would have with both bounds from one clock sample
OneSampleWidth == HoursPerDay * future_days_upcoming_shows - utc_offset

\* C11 as stated: both bounds come from one clock sample, so cutoff minus
\* local now is exactly the horizon less the offset, and the bounds stay as
\* they are while the series are compared.
C11_BoundsFromOneSample ==
    [][/\ pc_find' /= "start" => cutoff_date' - now_local' = OneSampleWidth'
       /\ pc_find /= "start" => UNCHANGED <<cutoff_date, now_local>>]_vars

\* C11 amended: the bounds come from two consecutive clock samples taken at
\* the start, the cutoff from the first and the local now from the second;
\* cutoff minus local now is the horizon less the offset less the time
\* between the two samples, and the clock is not read again: the bounds stay
\* as they are while the series are compared.
C11_BoundsFromTwoSamplesThenFixed ==
    [][/\ pc_find' /= "start" =>
             /\ cutoff_date' - now_local' <= OneSampleWidth'
             /\ cutoff_date' - now_local' >= OneSampleWidth' - MaxClockSkew
       /\ pc_find /= "start" => UNCHANGED <<cutoff_date, now_local>>]_vars

\* two series were compared against bounds whose second sample was taken
\* later than the first
C11_Witness ==
    /\ pc_find = "returned"
    /\ n_series = 2
    /\ Len(upcoming_shows) >= 1
    /\ cutoff_date - now_local < OneSampleWidth

(***************************************************************************)
(* Claims about search_trailer_on_youtube.                                 *)
(***************************************************************************)
\* the k-th consumed line passed every filter
Passed(k) == ~LineVerdict[stream[k], show_title, year, skip_channels].rejected
ScoreAt(k) == LineVerdict[stream[k], show_title, year, skip_channels].score
PassedPositions == {k \in 1..Len(stream) : Passed(k)}

\* the first position of the stream that holds the greatest score
IsFirstArgmax(k) ==
    /\ k \in PassedPositions
    /\ \A j \in PassedPositions : ScoreAt(j) <= ScoreAt(k) /\ (j < k => ScoreAt(j) < ScoreAt(k))

\* C2: the candidate returned is the one of greatest score among the
\* candidates that passed the filters, over the lines of all query variants
\* in order, the first seen among equals; None is returned iff none passed.
\* The result is a function of the ordered stream alone.
C2_ReturnsFirstArgmax ==
    pc_search = "returned" =>
        /\ (best = None <=> PassedPositions = {})
        /\ \A k \in PassedPositions : IsFirstArgmax(k) => best = Some(BestOf(stream[k]))

\* two different candidates of equal, greatest score were seen and the
\* search returned the earlier one
C2_Witness ==
    /\ pc_search = "returned"
    /\ Len(stream) = 2 /\ PassedPositions = {1, 2}
    /\ ScoreAt(1) = ScoreAt(2)
    /\ VidOf(stream[1]) /= VidOf(stream[2])
    /\ best = Some(BestOf(stream[1]))

\* the titles whose lower-cased form contains a denylisted keyword
DenylistedTitles ==
    {t \in {TitleOf(line) : line \in OutputLines} :
        \E k \in 1..Len(avoid_keywords) : Contains(Lower(t), avoid_keywords[k])}

\* C3: in every state of the selection loop the running best is not a
\* candidate whose title contains a denylisted keyword.
C3_BestNeverDenylisted ==
    best /= None => best[1].video_title \notin DenylistedTitles

\* a denylisted candidate that scores above the running best was consumed
C3_Witness ==
    /\ best /= None
    /\ \E k \in 1..Len(stream) :
        /\ TitleOf(stream[k]) \in DenylistedTitles
        /\ ScoreAt(k) > best_score

\* the latest attempt gave no output to read: timeout, exception, non-zero
\* exit or empty output
AttemptFailed == res \in {"timeout", "error", "noresults"}

\* the output of the running attempt holds a line that is no JSON
OutputHasUnparsableLine ==
    pc_search = "lines" /\ \E k \in 1..Len(stdout) : ~stdout[k].json

\* C9 as stated: an attempt that times out, exits non-zero, raises or returns
\* unparsable output is no result for its query variant: the running best of
\* the earlier variants is kept unchanged.
C9_FailedOrUnparsableKeepsBest ==
    [][((AtAttempt /\ AttemptFailed') \/ OutputHasUnparsableLine) => best' = best]_vars

\* C9 amended: an attempt that times out, raises, exits non-zero or prints
\* nothing skips its query variant, keeps the running best and goes on with
\* the next variant; an output line that is no JSON skips that line alone,
\* keeps the running best and goes on with the next line (or variant).
C9_FailureSkipsVariantBadLineSkipsLine ==
    [][ /\ (AtAttempt /\ AttemptFailed') =>
              /\ best' = best /\ best_score' = best_score
              /\ term_idx' = term_idx + 1 /\ pc_search' = "run"
        /\ (pc_search = "lines" /\ ~stdout[line_idx].json) =>
              /\ best' = best /\ best_score' = best_score
              /\ IF line_idx < Len(stdout)
                 THEN line_idx' = line_idx + 1 /\ term_idx' = term_idx /\ pc_search' = "lines"
                 ELSE term_idx' = term_idx + 1 /\ pc_search' = "run" ]_vars

\* an attempt timed out after an earlier variant had given the running best,
\* which is still held, and the loop is at a later variant
C9_Witness ==
    /\ pc_search = "run" /\ res = "timeout"
    /\ best /= None /\ Len(stream) = 1 /\ Passed(1)
    /\ term_idx <= Len(search_terms(show_title, year))

\* the consumed lines whose candidate is the running best
BestPositions == {k \in 1..Len(stream) : stream[k].json /\ VidOf(stream[k]) = best[1].video_id}

\* C10: no selected candidate has a known duration below 10 or above 900
\* seconds; a candidate of unknown (absent) duration may be selected.
C10_SelectedDurationInRange ==
    best /= None =>
        \A k \in BestPositions :
            \/ stream[k].duration = None
            \/ (MinDuration <= stream[k].duration[1] /\ stream[k].duration[1] <= MaxDuration)

(***************************************************************************)
(* Claims about create_overlay_yaml.                                       *)
(***************************************************************************)
\* the mapping under the key overlays of the overlay file
Overlays == DictGet(overlay_file[1].dumped, "overlays", <<>>)

\* id is one of the ids of the comma-joined string str
Listed(id, str) ==
    LET n == NatToStr(id)
    IN  \/ str = n
        \/ Len(str) > Len(n) + 1 /\ SubSeq(str, 1, Len(n) + 2) = n \o ", "
        \/ Len(str) > Len(n) + 1 /\ SubSeq(str, Len(str) - Len(n) - 1, Len(str)) = ", " \o n
        \/ Contains(str, ", " \o n \o ", ")

\* the keys of the text blocks whose tvdb_show lists id
TextBlocksListing(id) ==
    {Overlays[k][1] : k \in {j \in 1..Len(Overlays) :
        Overlays[j][1] /= "backdrop" /\ Listed(id, Overlays[j][2].tvdb_show)}}

\* the backdrop block is there and its tvdb_show lists id
InBackdrop(id) ==
    \E k \in 1..Len(Overlays) :
        Overlays[k][1] = "backdrop" /\ Listed(id, Overlays[k][2].tvdb_show)

\* the positions of the shows that carry a tvdb id
ShowsWithId == {i \in 1..Len(shows) : TruthyNum(shows[i].tvdbId)}

OverlayWritten == overlay_file /= None /\ shows /= <<>>

BackdropEnabled == DictGet(DictGet(config, "backdrop_upcoming_shows", <<>>), "enable", TRUE)
TextEnabled == DictGet(DictGet(config, "text_upcoming_shows", <<>>), "enable", TRUE)

\* the key of the text block of an air date under the configuration
KeyOfDate(date_str) ==
    LET section == DictGet(config, "text_upcoming_shows", <<>>)
    IN  "UTSK_" \o FormattedDate[date_str, DictGet(section, "date_format", "yyyy-mm-dd"),
                                 DictGet(section, "capitalize_dates", TRUE)]

\* no show airs later than show i on a date that gives the same block key
LatestOfItsKey(i) ==
    \A j \in 1..Len(shows) :
        KeyOfDate(shows[j].airDate) = KeyOfDate(shows[i].airDate)
            => ~StrLess(shows[i].airDate, shows[j].airDate)

TextBlocksWritten == SelectSeq(Overlays, LAMBDA item : item[1] /= "backdrop")

\* the distinct air dates of the shows, ascending
AirDatesOfShows == SortedStrs({shows[i].airDate : i \in 1..Len(shows)})

\* the comma-joined sorted ids of the shows that air on date_str
IdsAiringOn(date_str) ==
    JoinIds(SortedNats({shows[i].tvdbId[1] :
                i \in {j \in ShowsWithId : shows[j].airDate = date_str}}))

\* C12: with the text section enabled and at least one show with a tvdb id,
\* the overlay file holds one text block per distinct air date, in ascending
\* order of the ISO date, each listing the sorted ids of the shows of its
\* date, under every date_format and capitalize_dates.
C12_OneTextBlockPerAirDate ==
    (OverlayWritten /\ TextEnabled /\ ShowsWithId /= {}) =>
        /\ Len(TextBlocksWritten) = Len(AirDatesOfShows)
        /\ \A k \in 1..Len(AirDatesOfShows) :
              TextBlocksWritten[k][2].tvdb_show = IdsAiringOn(AirDatesOfShows[k])

(***************************************************************************)
(* Claims about create_collection_yaml.                                    *)
(***************************************************************************)
\* the mapping under the key collections of the collection file
Collections == DictGet(collection_file[1].dumped, "collections", <<>>)

\* the collection_upcoming_shows section of the configuration
CollectionSection == DictGet(config, "collection_upcoming_shows", <<>>)

\* the keys of the section that the block takes over between sort_title and
\* sync_mode, in the order of the section
OtherConfigKeys ==
    SelectSeq(Keys(CollectionSection),
              LAMBDA key : key \notin {"collection_name", "summary", "sort_title",
                                       "sync_mode", "tvdb_show"})

\* C5: when at least one show carries a tvdb id, the keys of the collection
\* block are summary, sort_title if the section has it, the other keys of
\* the section in their order, sync_mode, tvdb_show, each once, whatever
\* keys the section holds.
C5_CollectionKeyOrder ==
    (collection_file /= None /\ ShowsWithId /= {}) =>
        /\ Len(Collections) = 1
        /\ Keys(Collections[1][2]) =
              <<"summary">>
              \o (IF DictHas(CollectionSection, "sort_title") THEN <<"sort_title">> ELSE <<>>)
              \o OtherConfigKeys
              \o <<"sync_mode", "tvdb_show">>

\* the collection file of a show with an id, written from a section that
\* holds sync_mode before another key and sort_title
C5_Witness ==
    /\ collection_file /= None /\ ShowsWithId /= {}
    /\ Keys(CollectionSection) = <<"sync_mode", "visible_home", "sort_title">>
    /\ Keys(Collections[1][2]) = <<"summary", "sort_title", "visible_home", "sync_mode", "tvdb_show">>

\* the name the configuration gives the collection
ConfiguredName ==
    IF DictHas(CollectionSection, "collection_name")
    THEN DictGet(CollectionSection, "collection_name", "")
    ELSE "Upcoming Shows"

\* C8: the collection file has the single top-level key collections with a
\* single entry named by collection_name (default Upcoming Shows); its shape
\* is the smart-label block for an empty show list, the label-removing block
\* for shows without any tvdb id, and else a mapping that ends in sync_mode
\* "sync" and tvdb_show, the comma-joined sorted ids.
C8_CollectionShapes ==
    collection_file /= None =>
        /\ collection_file[1].written = ""
        /\ Keys(collection_file[1].dumped) = <<"collections">>
        /\ Keys(Collections) = <<ConfiguredName>>
        /\ LET block == Collections[1][2]
               label == << <<"all", << <<"label", ConfiguredName>> >> >> >>
           IN  IF shows = <<>>
               THEN block = << <<"plex_search", label>>,
                               <<"item_label.remove", ConfiguredName>>,
                               <<"smart_label", "random">>,
                               <<"build_collection", FALSE>> >>
               ELSE IF ShowsWithId = {}
               THEN block = << <<"plex_search", label>>,
                               <<"non_item_remove_label", ConfiguredName>>,
                               <<"build_collection", FALSE>> >>
               ELSE /\ Len(block) >= 2
                    /\ block[Len(block) - 1] = <<"sync_mode", "sync">>
                    /\ block[Len(block)] =
                          <<"tvdb_show",
                            JoinIds(SortedNats({shows[i].tvdbId[1] : i \in ShowsWithId}))>>

\* the collection file of two shows with ids, the larger id first, written
\* under a configured name from a section that sets sync_mode and tvdb_show
C8_Witness ==
    /\ collection_file /= None
    /\ Len(shows) = 2 /\ shows[1].tvdbId = Some(199) /\ shows[2].tvdbId = Some(102)
    /\ ConfiguredName = "Premieres"
    /\ DictHas(CollectionSection, "sync_mode") /\ DictHas(CollectionSection, "tvdb_show")
    /\ Collections[1][2][Len(Collections[1][2])] = <<"tvdb_show", "102, 199">>

(***************************************************************************)
(* Claims about the trailer loop of main.                                  *)
(***************************************************************************)
\* the log holds an event of this name for show i
Logged(name, i) == \E k \in 1..Len(log) : log[k].event = name /\ log[k].show = i

\* the log holds this event for show i
LoggedWith(name, i, detail) == \E k \in 1..Len(log) : log[k] = Event(name, i, detail)

\* how many events of this name the log holds for show i
RECURSIVE CountFrom(_, _, _)
CountFrom(name, i, k) ==
    IF k > Len(log) THEN 0
    ELSE (IF log[k].event = name /\ log[k].show = i THEN 1 ELSE 0) + CountFrom(name, i, k + 1)

\* the turn of show i in the loop is over
TurnOver(i) ==
    \/ i < show_idx
    \/ i = show_idx /\ pc_main \in {"show", "overlay", "collection", "done", "aborted"}

\* C6: a show whose trailer file is in place when the loop reaches it gets
\* no search and no download, and is counted once as successful and once as
\* skipped-existing.
C6_ExistingTrailerSkipsSearchAndDownload ==
    \A i \in 1..Len(shows) :
        LoggedWith("reach", i, "exists") =>
            /\ ~Logged("search", i) /\ ~Logged("mkdir", i)
            /\ ~Logged("attempt", i) /\ ~Logged("download", i)
            /\ CountFrom("successful", i, 1) = 1 /\ CountFrom("skipped", i, 1) = 1
            /\ ~Logged("failed", i)
            /\ skipped_existing >= 1 /\ successful_downloads >= skipped_existing

\* the loop went past a second show whose trailer file was in place, after a
\* first show that was searched
C6_Witness ==
    /\ LoggedWith("reach", 2, "exists") /\ Logged("skipped", 2)
    /\ Logged("search", 1)
    /\ skipped_existing = 1
    /\ pc_main = "done"

\* the search or the download step of show i failed
StepFailed(i) ==
    \/ LoggedWith("search", i, "none")
    \/ LoggedWith("mkdir", i, "raised")
    \/ \E k \in 1..Len(log) :
          log[k].event = "download" /\ log[k].show = i /\ log[k].detail /= "file found"

\* C7: a show whose search or download step failed is counted as failed and
\* the run is not aborted: once the run is over every show had its turn and
\* both files are written.
C7_FailedStepNeverAbortsRun ==
    \A i \in 1..Len(shows) :
        StepFailed(i) =>
            /\ pc_main /= "aborted"
            /\ TurnOver(i) => CountFrom("failed", i, 1) = 1
            /\ pc_main = "done" =>
                  /\ \A j \in 1..Len(shows) : TurnOver(j)
                  /\ overlay_file /= None /\ collection_file /= None

\* the run is over: main returned or left through sys.exit
RunOver == pc_main \in {"done", "aborted"}

\* C13: the two files of a run depend on the accepted shows and the
\* configuration only: whatever the trailer loop met (trailer found or not,
\* download failed, file in place, downloading disabled), a run that is over
\* has written the overlay file and the collection file that the two writers
\* give for its shows and configuration.
C13_FilesIndependentOfTrailers ==
    RunOver =>
        /\ overlay_file =
              Some(create_overlay_yaml(shows,
                     << <<"backdrop", DictGet(config, "backdrop_upcoming_shows", <<>>)>>,
                        <<"text", DictGet(config, "text_upcoming_shows", <<>>)>> >>))
        /\ collection_file = Some(create_collection_yaml(shows, config))

\* the formats of the attempts made for show i, in the order they were made
AttemptsOf(i) ==
    LET OfShow(e) == e.event = "attempt" /\ e.show = i
        attempts == SelectSeq(log, OfShow)
    IN  [k \in 1..Len(attempts) |-> attempts[k].detail]

\* download_trailer has returned for show i, after at least one attempt
ReturnedAfterAttempt(i) == Logged("attempt", i) /\ Logged("download", i)

\* C16: download_trailer makes at most two attempts for a show, the first
\* at exactly 1080p; the attempt at up to 1080p is made if and only if the
\* first one raised; if both raise it returns False and the loop goes on;
\* it returns True only if the trailer file is at its path.
C16_TwoAttemptsFallbackIffRaised ==
    \A i \in 1..Len(shows) :
        /\ AttemptsOf(i) \in {<<>>, <<"bv*[height=1080]+ba/b[height=1080]">>,
                               <<"bv*[height=1080]+ba/b[height=1080]",
                                 "bv*[height<=1080]+ba/b[height<=1080]">>}
        /\ Len(AttemptsOf(i)) = 2 => LoggedWith("raise", i, ExactFormat)
        /\ LoggedWith("raise", i, ExactFormat) /\ ~(i = show_idx /\ pc_main = "attempt2")
              => Len(AttemptsOf(i)) = 2
        /\ LoggedWith("raise", i, FallbackFormat)
              => /\ LoggedWith("download", i, "raised")
                 /\ CountFrom("failed", i, 1) = 1 /\ ~Logged("successful", i)
                 /\ CountFrom("download", i, 1) = 1
        /\ ReturnedAfterAttempt(i) =>
              /\ Logged("successful", i) =>
                    /\ final_mp4_path(shows[i]) \in files
                    /\ ~LoggedWith("raise", i, FallbackFormat)
              /\ final_mp4_path(shows[i]) \notin files => CountFrom("failed", i, 1) = 1

\* the first attempt of show 1 raised and the second left the file: True; for
\* show 2 both attempts raised: False, and the run went on to its end
C16_Witness ==
    /\ Len(shows) = 2
    /\ AttemptsOf(1) = <<ExactFormat, FallbackFormat>>
    /\ LoggedWith("download", 1, "file found") /\ Logged("successful", 1)
    /\ LoggedWith("raise", 2, ExactFormat) /\ LoggedWith("raise", 2, FallbackFormat)
    /\ Logged("failed", 2)
    /\ pc_main = "done"

\* how often show i was counted as successful or as failed
TimesCounted(i) == CountFrom("successful", i, 1) + CountFrom("failed", i, 1)

\* the shows whose turn in the loop is over
Processed == {i \in 1..Len(shows) : TurnOver(i)}

\* the loop was entered and is over
LoopOver ==
    /\ download_trailers(config)
    /\ pc_main \in {"overlay", "collection", "done", "aborted"}

\* the counts of the loop in a state
CountsAgree ==
    /\ \A i \in Processed : TimesCounted(i) = 1
    /\ \A i \in 1..Len(shows) : TimesCounted(i) <= 1
    /\ successful_downloads + failed_downloads = Cardinality(Processed)
    /\ skipped_existing <= successful_downloads
    /\ LoopOver => successful_downloads + failed_downloads = Len(shows)

\* no step lowers a counter
CountersGrow ==
    /\ successful_downloads' >= successful_downloads
    /\ failed_downloads' >= failed_downloads
    /\ skipped_existing' >= skipped_existing

\* C17: after k shows have had their turn successful_downloads +
\* failed_downloads = k and skipped_existing <= successful_downloads; every
\* show is counted exactly once, as successful or as failed, shows without a
\* path and shows without a trailer included; no counter ever decreases; and
\* when the loop is over successful_downloads + failed_downloads is the
\* number of shows.
C17_EveryShowCountedOnce == []CountsAgree /\ [][CountersGrow]_vars

\* C17 for the runs that main's handler of lines 789-791 did not end
C17_CountedOnceUnlessAborted == [](pc_main /= "aborted" => CountsAgree) /\ [][CountersGrow]_vars

\* the Season 00 directory of show 1 could not be made: the run is over, show
\* 1 and show 2 are counted neither as successful nor as failed
C17_AbortLeavesShowsUncounted ==
    /\ Len(shows) = 2
    /\ LoggedWith("mkdir", 1, "raised")
    /\ pc_main = "aborted"
    /\ TimesCounted(1) = 0 /\ TimesCounted(2) = 0
    /\ successful_downloads + failed_downloads = 0

(***************************************************************************)
(* Claims about _title_matches.                                            *)
(***************************************************************************)
\* the call of _title_matches returned
MatchReturned == fn = "_title_matches" /\ returned /= None

\* title ends in a 4-digit year in parentheses or in square brackets
EndsInYear(title) ==
    /\ Len(title) >= 6
    /\ SubSeq(title, Len(title) - 5, Len(title) - 5) \in {"(", "["}
    /\ \A k \in 1..4 : SubSeq(title, Len(title) - 5 + k, Len(title) - 5 + k) \in Digits
    /\ SubSeq(title, Len(title), Len(title)) =
          (IF SubSeq(title, Len(title) - 5, Len(title) - 5) = "(" THEN ")" ELSE "]")

\* the title with one trailing year in parentheses or brackets removed
TrailingYearRemoved(title) ==
    IF EndsInYear(title) THEN SubSeq(title, 1, Len(title) - 6) ELSE title

\* C14 as stated: _title_matches is true exactly when the normalized show
\* title, one trailing bracketed year removed, is non-empty and is part of
\* the normalized video title.
C14_MatchesIffTrailingYearBaseIsPart ==
    MatchReturned =>
        LET base == _normalize(TrailingYearRemoved(args.show_title))
        IN  returned[1] <=> (base /= "" /\ Contains(_normalize(args.video_title), base))

\* C14 amended: _title_matches is true exactly when the normalized show
\* title, every bracketed 4-digit year removed wherever it stands, is
\* non-empty and is part of the normalized video title; the base holds no
\* bracketed year, Foo (2025) has the base of Foo and matches Official FOO
\* Trailer, Foo does not match Bar Trailer, and an empty base matches
\* nothing.
C14_MatchesIffYearlessBaseIsPart ==
    MatchReturned =>
        LET base == _normalize(_base_show_title(args.show_title))
        IN  /\ returned[1] <=> (base /= "" /\ Contains(_normalize(args.video_title), base))
            /\ \A j \in 1..Len(args.show_title) :
                  ~YearTokenAt(_base_show_title(args.show_title), j)
            /\ args.show_title = "Foo (2025)" =>
                  /\ base = _normalize("Foo")
                  /\ args.video_title = "Official FOO Trailer" => returned[1]
            /\ (args.show_title = "Foo" /\ args.video_title = "Bar Trailer") => ~returned[1]
            /\ base = "" => ~returned[1]

\* a show title with a year in its middle matched a video title that holds
\* the title without the year
C14_Witness ==
    /\ MatchReturned
    /\ args.show_title = "Foo (2010) Bar"
    /\ args.video_title = "Foo Bar - Trailer"
    /\ returned[1]



(***************************************************************************)
(* Claims about format_date.                                               *)
(***************************************************************************)
\* format_date has returned
FormatReturned == fn = "format_date" /\ returned /= None

\* the tokens that stand at position i of the pattern, as positions of patterns
TokensAt(date_format, i) ==
    {n \in 1..Len(patterns) :
        /\ i + Len(patterns[n]) - 1 <= Len(date_format)
        /\ SubSeq(date_format, i, i + Len(patterns[n]) - 1) = patterns[n]}

\* the longest of them
LongestTokenAt(date_format, i) ==
    CHOOSE n \in TokensAt(date_format, i) :
        \A k \in TokensAt(date_format, i) : Len(patterns[k]) <= Len(patterns[n])

\* the date field a token is mapped to
FieldOf(date, token) == strftime(date, format_mapping(date, token), 1)

RECURSIVE TokensReplacedFrom(_, _, _)
\* the pattern from position i on, every token replaced by its date field, a
\* longer token before the shorter ones it contains, the text put in never
\* read again, the text between the tokens kept
TokensReplacedFrom(date, date_format, i) ==
    IF i > Len(date_format) THEN ""
    ELSE IF TokensAt(date_format, i) = {}
    THEN CharAt(date_format, i) \o TokensReplacedFrom(date, date_format, i + 1)
    ELSE LET token == patterns[LongestTokenAt(date_format, i)]
         IN  FieldOf(date, token) \o TokensReplacedFrom(date, date_format, i + Len(token))

\* C15: format_date returns the pattern with every occurrence of a token
\* replaced by its date field, a longer token matched before the shorter
\* tokens it contains and no text put in by a replacement matched again;
\* with capitalize the result is in upper case
C15_TokensReplacedOnce ==
    FormatReturned =>
        LET replaced == TokensReplacedFrom(strptime(args.yyyy_mm_dd), args.date_format, 1)
        IN  returned[1] = IF args.capitalize THEN Upper(replaced) ELSE replaced

\* the text of a marker: two at signs, digits, two at signs
HasAtSigns(date_format) == Contains(date_format, "@@")

\* C15 for the patterns without two at signs in a row
C15_TokensReplacedOnceWithoutAtSigns ==
    FormatReturned /\ ~HasAtSigns(args.date_format) => C15_TokensReplacedOnce

\* the two calls of the documentation and their results
C15_Examples ==
    FormatReturned /\ args.yyyy_mm_dd = "2025-03-07" =>
        /\ args.date_format = "mmmm d, yyyy" /\ args.capitalize => returned[1] = "MARCH 7, 2025"
        /\ args.date_format = "yyyy-mm-dd" /\ ~args.capitalize => returned[1] = "2025-03-07"

\* the day 11 put in for d, between at signs, was read as the marker of y
C15_InsertedDayReadAsMarker ==
    /\ FormatReturned
    /\ args = [yyyy_mm_dd |-> "2025-11-11", date_format |-> "@@d@@ y", capitalize |-> FALSE]
    /\ returned[1] = "25 25"

=============================================================================
